---------------------------- MODULE Spec2Model ----------------------------
(***************************************************************************)
(* aws-secret-parse: list the secrets of AWS Secrets Manager that match a  *)
(* criterion, fetch every value, build the template context and render a   *)
(* html/template file into the output file.                                *)
(*                                                                         *)
(* Two variants of the program are modelled:                               *)
(*   "tag"  : src/main.go            (filter tag-key env / tag-value)      *)
(*   "name" : src/unnamed/part_002   (filter name, JSON objects merged)    *)
(*                                                                         *)
(* A Go string is a sequence of atoms; an atom is a TLA+ string that holds *)
(* either one character that matters to a parser or an escaper ("{", "<",  *)
(* "&", the double quote ...) or a run of characters that matters to none. *)
(***************************************************************************)
EXTENDS Integers, Sequences, FiniteSets, TLC

\* ------------------------------------------------------------------ bounds
MaxSecrets == 3        \* secrets held by the store
PageSize == 2          \* secrets the store returns in one ListSecrets page

\* ------------------------------------------------------------- the inputs
SecretNames == <<"s1", "s2", "s3", "s4", "s5">>
Ids == 1..MaxSecrets
NameOf(i) == <<SecretNames[i]>>
ArnOf(i) == <<"arn:", SecretNames[i]>>

Q == "\""

\* The secret strings the store may hold.
Catalogue ==
  << <<"{", Q, "A", Q, ":", Q, "x", Q, "}">>,
     <<"{", Q, "A", Q, ":", Q, "y", "&", Q, ",",
            Q, "s1", Q, ":", "{", Q, "C", Q, ":", "1000000", "}", "}">>,
     <<"null">>,
     <<"p", "<", "q">>,
     <<"[", "1", "]">> >>

\* The template files.
Templates ==
  << <<"a=", "{{", ".", "A", "}}", ";", "{{", ".", "C", "}}", ";",
       "{{", ".", "s1", "}}">>,
     <<"{{", ".", "s2", "}}", "}}">>,
     <<"a=", "{{", ".", "A">> >>

ConfigKeys == {"criterion", "template", "outfile", "region"}
Configs == [ConfigKeys -> {<<>>, <<"v">>}]
Variants == {"tag", "name"}

\* ------------------------------------------------------- encoding/json
Numbers == {"1", "1000000"}
Literals == {"null", "true", "false"}

EmptyMap == [k \in {} |-> <<>>]
Put(m, k, v) == [x \in (DOMAIN m) \cup {k} |-> IF x = k THEN v ELSE m[x]]

ParseFail == [ok |-> FALSE, v |-> [k |-> "none"], n |-> 0]

\* index of the first double quote at or after i, 0 when there is none
RECURSIVE FindQuote(_, _)
FindQuote(s, i) ==
  IF i > Len(s) THEN 0
  ELSE IF s[i] = Q THEN i
  ELSE FindQuote(s, i + 1)

ParseString(s, i) ==
  IF i > Len(s) \/ s[i] # Q THEN ParseFail
  ELSE LET j == FindQuote(s, i + 1)
       IN IF j = 0 THEN ParseFail
          ELSE [ok |-> TRUE, v |-> [k |-> "str", s |-> SubSeq(s, i + 1, j - 1)],
                n |-> j + 1]

RECURSIVE ParseValue(_, _)
RECURSIVE ParseMembers(_, _, _)
RECURSIVE ParseElements(_, _, _)

\* members of an object from position i on; m holds the members read so far
\* (a repeated key keeps the value read last)
ParseMembers(s, i, m) ==
  LET key == ParseString(s, i)
  IN IF ~key.ok \/ key.n > Len(s) \/ s[key.n] # ":" THEN ParseFail
     ELSE LET val == ParseValue(s, key.n + 1)
          IN IF ~val.ok \/ val.n > Len(s) THEN ParseFail
             ELSE LET m2 == Put(m, key.v.s, val.v)
                  IN IF s[val.n] = "," THEN ParseMembers(s, val.n + 1, m2)
                     ELSE IF s[val.n] = "}"
                          THEN [ok |-> TRUE, v |-> [k |-> "obj", m |-> m2],
                                n |-> val.n + 1]
                          ELSE ParseFail

ParseElements(s, i, e) ==
  LET val == ParseValue(s, i)
  IN IF ~val.ok \/ val.n > Len(s) THEN ParseFail
     ELSE LET e2 == Append(e, val.v)
          IN IF s[val.n] = "," THEN ParseElements(s, val.n + 1, e2)
             ELSE IF s[val.n] = "]"
                  THEN [ok |-> TRUE, v |-> [k |-> "arr", e |-> e2], n |-> val.n + 1]
                  ELSE ParseFail

ParseValue(s, i) ==
  IF i > Len(s) THEN ParseFail
  ELSE IF s[i] = Q THEN ParseString(s, i)
  ELSE IF s[i] \in Numbers THEN [ok |-> TRUE, v |-> [k |-> "num", a |-> s[i]], n |-> i + 1]
  ELSE IF s[i] \in Literals THEN [ok |-> TRUE, v |-> [k |-> "lit", a |-> s[i]], n |-> i + 1]
  ELSE IF s[i] = "{"
       THEN IF i + 1 <= Len(s) /\ s[i + 1] = "}"
            THEN [ok |-> TRUE, v |-> [k |-> "obj", m |-> EmptyMap], n |-> i + 2]
            ELSE ParseMembers(s, i + 1, EmptyMap)
  ELSE IF s[i] = "["
       THEN IF i + 1 <= Len(s) /\ s[i + 1] = "]"
            THEN [ok |-> TRUE, v |-> [k |-> "arr", e |-> <<>>], n |-> i + 2]
            ELSE ParseElements(s, i + 1, <<>>)
  ELSE ParseFail

\* json.Unmarshal([]byte(secretValue), &parsed) with parsed a nil
\* map[string]interface{}: a JSON object fills the map, JSON null leaves the
\* map nil without an error, everything else is an error.
Unmarshal(raw) ==
  LET r == ParseValue(raw, 1)
  IN IF ~r.ok \/ r.n # Len(raw) + 1 THEN [err |-> TRUE, m |-> EmptyMap]
     ELSE IF r.v.k = "obj" THEN [err |-> FALSE, m |-> r.v.m]
     ELSE IF r.v.k = "lit" /\ r.v.a = "null" THEN [err |-> FALSE, m |-> EmptyMap]
     ELSE [err |-> TRUE, m |-> EmptyMap]

\* ------------------------------------------------------- fmt.Sprintf("%v")
\* strconv's %g form of the float64 a JSON number decodes to
FormatFloat(a) ==
  IF a = "1000000" THEN <<"1e", "+", "06">> ELSE <<a>>

\* byte order of the atoms that occur as keys of a nested object
KeyOrder == <<"A", "C", "s1", "s2", "s3", "s4", "s5">>
KeyRank(key) == CHOOSE i \in 1..Len(KeyOrder) : KeyOrder[i] = key[1]
MinKey(keys) == CHOOSE k \in keys : \A o \in keys : KeyRank(k) <= KeyRank(o)

RECURSIVE Sprintf(_)
RECURSIVE SprintfMap(_, _)
RECURSIVE SprintfSlice(_, _)

\* the members of a map[string]interface{}, keys sorted, separated by a space
SprintfMap(m, keys) ==
  IF keys = {} THEN <<>>
  ELSE LET k == MinKey(keys)
           rest == keys \ {k}
       IN k \o <<":">> \o Sprintf(m[k])
            \o (IF rest = {} THEN <<>> ELSE <<" ">> \o SprintfMap(m, rest))

SprintfSlice(e, i) ==
  IF i > Len(e) THEN <<>>
  ELSE Sprintf(e[i]) \o (IF i = Len(e) THEN <<>> ELSE <<" ">> \o SprintfSlice(e, i + 1))

\* fmt.Sprintf("%v", v) of a value json.Unmarshal stored in an interface{}
Sprintf(v) ==
  IF v.k = "str" THEN v.s
  ELSE IF v.k = "num" THEN FormatFloat(v.a)
  ELSE IF v.k = "lit" THEN (IF v.a = "null" THEN <<"<", "nil", ">">> ELSE <<v.a>>)
  ELSE IF v.k = "obj" THEN <<"map[">> \o SprintfMap(v.m, DOMAIN v.m) \o <<"]">>
  ELSE <<"[">> \o SprintfSlice(v.e, 1) \o <<"]">>

\* ------------------------------------------------------------ html/template
\* htmlReplacementTable of html/template, applied to a value in text context
HTMLEscapeAtom(a) ==
  IF a = "<" THEN "&lt;"
  ELSE IF a = ">" THEN "&gt;"
  ELSE IF a = "&" THEN "&amp;"
  ELSE IF a = Q THEN "&#34;"
  ELSE IF a = "'" THEN "&#39;"
  ELSE IF a = "+" THEN "&#43;"
  ELSE a

HTMLEscape(s) == [i \in 1..Len(s) |-> HTMLEscapeAtom(s[i])]

TemplateFail == [ok |-> FALSE, nodes |-> <<>>]

\* template.ParseFiles: text outside the delimiters, {{.Key}} actions
RECURSIVE ParseTemplate(_, _, _)
ParseTemplate(s, i, nodes) ==
  IF i > Len(s) THEN [ok |-> TRUE, nodes |-> nodes]
  ELSE IF s[i] = "{{"
       THEN IF /\ i + 3 <= Len(s)
               /\ s[i + 1] = "."
               /\ s[i + 2] \notin {"{{", "}}", "."}
               /\ s[i + 3] = "}}"
            THEN ParseTemplate(s, i + 4,
                               Append(nodes, [t |-> "field", key |-> <<s[i + 2]>>]))
            ELSE TemplateFail
       ELSE ParseTemplate(s, i + 1, Append(nodes, [t |-> "text", key |-> <<s[i]>>]))

\* MapIndex as text/template prints an absent key of a map of interfaces
MapIndexNoValue(secrets, key) ==
  IF key \in DOMAIN secrets THEN secrets[key] ELSE <<"<", "no value", ">">>

\* {{.Key}} on a map[string]string: the entry, or the zero value of string
MapIndex(secrets, key) ==
  IF key \in DOMAIN secrets THEN secrets[key] ELSE <<>>

\* what tmpl.Execute writes for one node
NodeOutput(node, secrets) ==
  IF node.t = "text" THEN node.key
  ELSE HTMLEscape(MapIndex(secrets, node.key))

\* what tmpl.Execute has written after the first n nodes
RECURSIVE Written(_, _, _)
Written(nodes, secrets, n) ==
  IF n = 0 THEN <<>>
  ELSE Written(nodes, secrets, n - 1) \o NodeOutput(nodes[n], secrets)

\* ------------------------------------------------------------------ state
VARIABLES
  variant,      \* which main.go runs
  store,        \* per secret id: 0 = does not match the criterion,
                \*                i > 0 = matches and holds Catalogue[i]
  template,     \* contents of the template file
  rerun,        \* FALSE in the first run of the program, TRUE in the second
  pc,           \* position of Run
  exitCode,     \* -1 while the process runs, then its exit code
  cfg,          \* the globals validateConfig assigns
  secretArns,   \* name -> ARN, built from result.SecretList
  todo,         \* names the range loop has not visited yet
  processed,    \* names the range loop has visited, in order
  ctx,          \* the map listSecretsWithFilter returns
  tmpl,         \* the parsed template
  file,         \* contents of the output file
  fileExists,   \* the output path exists
  fileOpen,     \* outputFile is open
  fileAtStart,  \* the output path as the run found it
  prevExit,     \* exit code of the run before this one, -1 if there was none
  listResult,   \* "none" until ListSecretsWithContext returns, then "ok" or "error"
  fetchFailed,  \* GetSecretValueWithContext failed in this run
  renderEntered,\* createFile was entered in this run
  created       \* os.Create was called in this run

vars == <<variant, store, template, rerun, pc, exitCode, cfg, secretArns, todo,
          processed, ctx, tmpl, file, fileExists, fileOpen, fileAtStart,
          prevExit, listResult, fetchFailed, renderEntered, created>>

inputs == <<variant, store, template>>
fileVars == <<file, fileExists, fileOpen>>
resolveVars == <<secretArns, todo, processed, ctx>>
history == <<prevExit, listResult, fetchFailed, renderEntered, created>>

NoConfig == [k \in ConfigKeys |-> <<>>]

Init ==
  /\ variant \in Variants
  /\ store \in [Ids -> 0..Len(Catalogue)]
  /\ template \in {Templates[i] : i \in 1..Len(Templates)}
  /\ rerun = FALSE
  /\ pc = "start"
  /\ exitCode = -1
  /\ cfg = NoConfig
  /\ secretArns = EmptyMap
  /\ todo = {}
  /\ processed = <<>>
  /\ ctx = EmptyMap
  /\ tmpl = <<>>
  /\ file = <<>>
  /\ fileExists = FALSE
  /\ fileOpen = FALSE
  /\ fileAtStart = [exists |-> FALSE, content |-> <<>>]
  /\ prevExit = -1
  /\ listResult = "none"
  /\ fetchFailed = FALSE
  /\ renderEntered = FALSE
  /\ created = FALSE

\* logrus.Fatal: log, then os.Exit(1); deferred calls do not run
Fatal ==
  /\ pc' = "exited"
  /\ exitCode' = 1

\* ------------------------------------------------------------ the store
Matching == {i \in Ids : store[i] # 0}

\* the first page of the ListSecrets result: the first PageSize matches
FirstPage == {i \in Matching : Cardinality({j \in Matching : j < i}) < PageSize}

IdOfArn(arn) == CHOOSE i \in Ids : ArnOf(i) = arn
SecretString(arn) == Catalogue[store[IdOfArn(arn)]]

\* ----------------------------------------------------------- validateConfig
ValidateOrder == <<"criterion", "template", "outfile", "region">>

\* FirstEmpty with the check of the last setting left out
FirstEmptyButLast(c) ==
  IF \E i \in 1..(Len(ValidateOrder) - 1) : c[ValidateOrder[i]] = <<>>
  THEN CHOOSE i \in 1..(Len(ValidateOrder) - 1) :
         /\ c[ValidateOrder[i]] = <<>>
         /\ \A j \in 1..(i - 1) : c[ValidateOrder[j]] # <<>>
  ELSE 0

\* position in ValidateOrder of the first setting found empty, 0 if none is
FirstEmpty(c) ==
  IF \E i \in 1..Len(ValidateOrder) : c[ValidateOrder[i]] = <<>>
  THEN CHOOSE i \in 1..Len(ValidateOrder) :
         /\ c[ValidateOrder[i]] = <<>>
         /\ \A j \in 1..(i - 1) : c[ValidateOrder[j]] # <<>>
  ELSE 0

\* the globals after validateConfig read the settings c: every setting up to
\* the one that stopped it
GlobalsRead(c) ==
  LET e == FirstEmpty(c)
  IN [k \in ConfigKeys |->
        IF e = 0 \/ \E i \in 1..e : ValidateOrder[i] = k THEN c[k] ELSE <<>>]

\* initConfig(); validateConfig(): c is what viper returns for the settings
ValidateConfig ==
  /\ pc = "start"
  /\ \E c \in (IF rerun THEN {cfg} ELSE Configs) :
       /\ cfg' = GlobalsRead(c)
       /\ IF FirstEmpty(c) = 0
          THEN pc' = "session" /\ UNCHANGED exitCode
          ELSE Fatal
  /\ UNCHANGED <<inputs, rerun, resolveVars, tmpl, fileVars, fileAtStart, history>>

NewSessionOk ==
  /\ pc = "session"
  /\ pc' = "list"
  /\ UNCHANGED <<inputs, rerun, exitCode, cfg, resolveVars, tmpl, fileVars,
                 fileAtStart, history>>

NewSessionFail ==
  /\ pc = "session"
  /\ Fatal
  /\ UNCHANGED <<inputs, rerun, cfg, resolveVars, tmpl, fileVars, fileAtStart,
                 history>>

\* ---------------------------------------------------- listSecretsWithFilter
\* the map the value loop starts from: the tag variant reuses the name -> ARN
\* map, the name variant makes a new one
InitialContext(v, arns) == IF v = "tag" THEN arns ELSE EmptyMap

\* ListSecretsOk with an empty result turned into an error
ListSecretsEmptyIsError ==
  /\ pc = "list"
  /\ listResult' = "ok"
  /\ secretArns' = [n \in {NameOf(i) : i \in FirstPage} |->
                      ArnOf(CHOOSE i \in FirstPage : NameOf(i) = n)]
  /\ todo' = DOMAIN secretArns'
  /\ processed' = <<>>
  /\ ctx' = InitialContext(variant, secretArns')
  /\ IF FirstPage = {} THEN Fatal ELSE pc' = "resolve" /\ UNCHANGED exitCode
  /\ UNCHANGED <<inputs, rerun, cfg, tmpl, fileVars, fileAtStart, prevExit,
                 fetchFailed, renderEntered, created>>

\* ListSecretsWithContext returned a page; the name -> ARN map is built
ListSecretsOk ==
  /\ pc = "list"
  /\ listResult' = "ok"
  /\ secretArns' = [n \in {NameOf(i) : i \in FirstPage} |->
                      ArnOf(CHOOSE i \in FirstPage : NameOf(i) = n)]
  /\ todo' = DOMAIN secretArns'
  /\ processed' = <<>>
  /\ ctx' = InitialContext(variant, secretArns')
  /\ pc' = "resolve"
  /\ UNCHANGED <<inputs, rerun, exitCode, cfg, tmpl, fileVars, fileAtStart, prevExit,
                 fetchFailed, renderEntered, created>>

\* ListSecretsWithContext returned an error: listSecretsWithFilter returns it
\* and Run ends the process
ListSecretsFail ==
  /\ pc = "list"
  /\ listResult' = "error"
  /\ Fatal
  /\ UNCHANGED <<inputs, rerun, cfg, resolveVars, tmpl, fileVars, fileAtStart, prevExit,
                 fetchFailed, renderEntered, created>>

\* what the tag variant stores for a secret: the value under the secret's name
ContributionTag(name, raw) == [k \in {name} |-> raw]

\* what the name variant stores for a secret: the top-level members of a value
\* that unmarshals into the map, else the value under the secret's name
ContributionName(name, raw) ==
  LET u == Unmarshal(raw)
  IN IF ~u.err
     THEN [k \in DOMAIN u.m |-> Sprintf(u.m[k])]
     ELSE [k \in {name} |-> raw]

Contribution(v, name, raw) ==
  IF v = "tag" THEN ContributionTag(name, raw) ELSE ContributionName(name, raw)

\* Merge that keeps the entry a key already has
MergeKeepFirst(m, c) ==
  [k \in (DOMAIN m) \cup (DOMAIN c) |-> IF k \in DOMAIN m THEN m[k] ELSE c[k]]

\* Merge that starts a new map in every iteration
MergeReplace(m, c) == c

\* the map assignments of one iteration
Merge(m, c) ==
  [k \in (DOMAIN m) \cup (DOMAIN c) |-> IF k \in DOMAIN c THEN c[k] ELSE m[k]]

\* one iteration of the range loop, the value fetched
GetSecretValueOk(n) ==
  /\ pc = "resolve"
  /\ n \in todo
  /\ ctx' = Merge(ctx, Contribution(variant, n, SecretString(secretArns[n])))
  /\ todo' = todo \ {n}
  /\ processed' = Append(processed, n)
  /\ UNCHANGED <<inputs, rerun, pc, exitCode, cfg, secretArns, tmpl, fileVars,
                 fileAtStart, history>>

\* GetSecretValueFail that logs the error and goes on with the next secret
GetSecretValueSkip(n) ==
  /\ pc = "resolve"
  /\ n \in todo
  /\ fetchFailed' = TRUE
  /\ todo' = todo \ {n}
  /\ UNCHANGED <<inputs, rerun, pc, exitCode, cfg, secretArns, processed, ctx,
                 tmpl, fileVars, fileAtStart, prevExit, listResult,
                 renderEntered, created>>

\* one iteration of the range loop, GetSecretValueWithContext returned an
\* error: getSecretValueWithContext ends the process
GetSecretValueFail(n) ==
  /\ pc = "resolve"
  /\ n \in todo
  /\ fetchFailed' = TRUE
  /\ Fatal
  /\ UNCHANGED <<inputs, rerun, cfg, resolveVars, tmpl, fileVars, fileAtStart, prevExit,
                 listResult, renderEntered, created>>

\* the loop is over: listSecretsWithFilter returns the map, Run calls createFile
ReturnContext ==
  /\ pc = "resolve"
  /\ todo = {}
  /\ processed' = <<>>
  /\ renderEntered' = TRUE
  /\ pc' = "parse"
  /\ UNCHANGED <<inputs, rerun, exitCode, cfg, secretArns, todo, ctx, tmpl,
                 fileVars, fileAtStart, prevExit, listResult, fetchFailed, created>>

\* -------------------------------------------------------------- createFile
ParseFilesOk ==
  /\ pc = "parse"
  /\ ParseTemplate(template, 1, <<>>).ok
  /\ tmpl' = ParseTemplate(template, 1, <<>>).nodes
  /\ pc' = "create"
  /\ UNCHANGED <<inputs, rerun, exitCode, cfg, resolveVars, fileVars,
                 fileAtStart, history>>

\* the template file cannot be read or does not parse
ParseFilesFail ==
  /\ pc = "parse"
  /\ Fatal
  /\ UNCHANGED <<inputs, rerun, cfg, resolveVars, tmpl, fileVars, fileAtStart,
                 history>>

\* os.Create: the file is created or truncated, and open
CreateOk ==
  /\ pc = "create"
  /\ created' = TRUE
  /\ file' = <<>>
  /\ fileExists' = TRUE
  /\ fileOpen' = TRUE
  /\ pc' = "execute"
  /\ UNCHANGED <<inputs, rerun, exitCode, cfg, resolveVars, tmpl, fileAtStart, prevExit,
                 listResult, fetchFailed, renderEntered>>

CreateFail ==
  /\ pc = "create"
  /\ created' = TRUE
  /\ Fatal
  /\ UNCHANGED <<inputs, rerun, cfg, resolveVars, tmpl, fileVars, fileAtStart, prevExit,
                 listResult, fetchFailed, renderEntered>>

\* tmpl.Execute wrote every node; createFile returns, the deferred Close runs,
\* Run returns and the process ends with code 0
ExecuteOk ==
  /\ pc = "execute"
  /\ file' = Written(tmpl, ctx, Len(tmpl))
  /\ fileOpen' = FALSE
  /\ pc' = "exited"
  /\ exitCode' = 0
  /\ UNCHANGED <<inputs, rerun, cfg, resolveVars, tmpl, fileExists, fileAtStart,
                 history>>

\* tmpl.Execute returned an error at node j, the nodes before it written
ExecuteFail(j) ==
  /\ pc = "execute"
  /\ j \in 1..Len(tmpl)
  /\ file' = Written(tmpl, ctx, j - 1)
  /\ Fatal
  /\ UNCHANGED <<inputs, rerun, cfg, resolveVars, tmpl, fileExists, fileOpen,
                 fileAtStart, history>>

\* the program is started again; the store, the template, the settings and
\* the file system are as the first run left them
Restart ==
  /\ pc = "exited"
  /\ ~rerun
  /\ prevExit' = exitCode
  /\ rerun' = TRUE
  /\ pc' = "start"
  /\ exitCode' = -1
  /\ secretArns' = EmptyMap
  /\ todo' = {}
  /\ processed' = <<>>
  /\ ctx' = EmptyMap
  /\ tmpl' = <<>>
  /\ fileOpen' = FALSE
  /\ fileAtStart' = [exists |-> fileExists, content |-> file]
  /\ listResult' = "none"
  /\ fetchFailed' = FALSE
  /\ renderEntered' = FALSE
  /\ created' = FALSE
  /\ UNCHANGED <<inputs, cfg, file, fileExists>>

Next ==
  \/ ValidateConfig
  \/ NewSessionOk
  \/ NewSessionFail
  \/ ListSecretsOk
  \/ ListSecretsFail
  \/ \E n \in todo : GetSecretValueOk(n)
  \/ \E n \in todo : GetSecretValueFail(n)
  \/ ReturnContext
  \/ ParseFilesOk
  \/ ParseFilesFail
  \/ CreateOk
  \/ CreateFail
  \/ ExecuteOk
  \/ \E j \in 1..Len(tmpl) : ExecuteFail(j)
  \/ Restart

Spec == Init /\ [][Next]_vars

\* ----------------------------------------------------------------- claims
RawOf(n) == SecretString(secretArns[n])

\* the secret string is a JSON object
IsJSONObject(raw) ==
  LET r == ParseValue(raw, 1)
  IN r.ok /\ r.n = Len(raw) + 1 /\ r.v.k = "obj"

TopLevel(raw) == ParseValue(raw, 1).v.m

\* the keys of the objects nested one level down
NestedKeys(raw) ==
  UNION {DOMAIN TopLevel(raw)[k].m :
           k \in {x \in DOMAIN TopLevel(raw) : TopLevel(raw)[x].k = "obj"}}

\* the keys the secret named n is specified to write
SpecKeys(n) ==
  IF IsJSONObject(RawOf(n)) THEN DOMAIN TopLevel(RawOf(n)) ELSE {n}

Processed == 1..Len(processed)

\* C1: during and after resolution, every top-level key of every processed
\* secret that is a JSON object is a key of the context, valued at the
\* stringified member unless a secret processed later writes that key, and a
\* key of a nested object is a context key only if some secret writes it as
\* its own key; in the tag variant and in the name variant.
C1_ObjectKeysFlattened ==
  pc = "resolve" =>
    \A i \in Processed :
      LET raw == RawOf(processed[i])
      IN IsJSONObject(raw) =>
           /\ \A k \in DOMAIN TopLevel(raw) :
                /\ k \in DOMAIN ctx
                /\ \/ ctx[k] = Sprintf(TopLevel(raw)[k])
                   \/ \E j \in (i + 1)..Len(processed) : k \in SpecKeys(processed[j])
           /\ \A k \in NestedKeys(raw) :
                k \in DOMAIN ctx => \E j \in Processed : k \in SpecKeys(processed[j])

\* C2: right after a secret that is not a JSON object was processed, the
\* context holds the raw secret string under the secret's name, and when it is
\* the first secret the name variant processes, that is the only entry.
C2_NonObjectUnderName ==
  (pc = "resolve" /\ processed # <<>>) =>
    LET n == processed[Len(processed)]
    IN ~IsJSONObject(RawOf(n)) =>
         /\ n \in DOMAIN ctx
         /\ ctx[n] = RawOf(n)
         /\ (variant = "name" /\ Len(processed) = 1) => DOMAIN ctx = {n}

\* C3: once a get-value call failed, the process has ended with exit code 1,
\* createFile was not entered, os.Create was not called and the output path
\* is as the run found it.
C3_FetchFailureNoOutput ==
  fetchFailed =>
    /\ pc = "exited"
    /\ exitCode = 1
    /\ ~renderEntered
    /\ ~created
    /\ ~fileOpen
    /\ fileExists = fileAtStart.exists
    /\ file = fileAtStart.content

\* C3 witness: a fetch failed after another secret was fetched, with the file
\* of the run before in place
C3_Witness ==
  /\ fetchFailed
  /\ Len(processed) >= 1
  /\ fileAtStart.exists
  /\ fileAtStart.content # <<>>

BothRunsSucceeded == rerun /\ prevExit = 0 /\ pc = "exited" /\ exitCode = 0

\* C4 as stated: two successful runs on the same store and template leave the
\* same bytes in the output file, whatever the iteration orders.
C4_SameOutputAnyOrder ==
  BothRunsSucceeded => file = fileAtStart.content

ContributionOf(i) == Contribution(variant, NameOf(i), Catalogue[store[i]])

\* two listed secrets write different values under one key
Conflict ==
  \E i, j \in FirstPage :
    /\ i # j
    /\ \E k \in (DOMAIN ContributionOf(i)) \cap (DOMAIN ContributionOf(j)) :
         ContributionOf(i)[k] # ContributionOf(j)[k]

\* C4 amended: two successful runs on the same store and template leave the
\* same bytes in the output file when no two listed secrets write different
\* values under the same context key.
C4_SameOutputNoConflict ==
  (BothRunsSucceeded /\ ~Conflict) => file = fileAtStart.content

FieldNodes == {i \in 1..Len(tmpl) : tmpl[i].t = "field"}

\* C4 witness: both runs succeeded with two secrets listed and a placeholder
\* filled from the context
C4_Witness ==
  /\ BothRunsSucceeded
  /\ ~Conflict
  /\ Cardinality(FirstPage) >= 2
  /\ Cardinality(DOMAIN ctx) >= 2
  /\ \E i \in FieldNodes : tmpl[i].key \in DOMAIN ctx

RECURSIVE Concat(_, _)
Concat(segs, n) == IF n = 0 THEN <<>> ELSE Concat(segs, n - 1) \o segs[n]

\* the output with every placeholder replaced by its value as it is, or by
\* nothing when the context lacks the key
PlainOutput ==
  Concat([i \in 1..Len(tmpl) |->
            IF tmpl[i].t = "text" THEN tmpl[i].key
            ELSE IF tmpl[i].key \in DOMAIN ctx THEN ctx[tmpl[i].key]
            ELSE <<>>], Len(tmpl))

\* the same with the values HTML-escaped
EscapedOutput ==
  Concat([i \in 1..Len(tmpl) |->
            IF tmpl[i].t = "text" THEN tmpl[i].key
            ELSE IF tmpl[i].key \in DOMAIN ctx THEN HTMLEscape(ctx[tmpl[i].key])
            ELSE <<>>], Len(tmpl))

TextOnly ==
  Concat([i \in 1..Len(tmpl) |->
            IF tmpl[i].t = "text" THEN tmpl[i].key ELSE <<>>], Len(tmpl))

\* C6: when no secret matches and the list call returned, the context is
\* empty, no fetch failed, the process does not end before createFile is
\* entered, and a run that succeeds wrote the template's text with every
\* placeholder replaced by the empty string.
C6_NoMatchStillRenders ==
  (Matching = {} /\ listResult = "ok") =>
    /\ ctx = EmptyMap
    /\ ~fetchFailed
    /\ (pc = "exited" => renderEntered)
    /\ ((pc = "exited" /\ exitCode = 0) => (fileExists /\ file = TextOnly))

\* C6 witness: a run with no matching secret succeeded on a template that has
\* a placeholder
C6_Witness ==
  /\ Matching = {}
  /\ pc = "exited"
  /\ exitCode = 0
  /\ FieldNodes # {}

\* C7: a process that has ended has no output file open.
C7_ClosedAtExit ==
  pc = "exited" => ~fileOpen

\* C8: the map discovery builds has an entry for exactly the secrets of the
\* store that match the criterion.
C8_AllMatchesListed ==
  (pc = "resolve" /\ listResult = "ok") =>
    DOMAIN secretArns = {NameOf(i) : i \in Matching}

AllSet == \A k \in ConfigKeys : cfg[k] # <<>>

\* C9: a run whose validation found a setting empty has ended with exit code 1
\* with no list call issued and no output file created, and a list call or a
\* file creation happens only with the four settings found non-empty.
C9_ValidatedBeforeStore ==
  /\ (pc # "start" /\ ~AllSet) =>
       /\ pc = "exited"
       /\ exitCode = 1
       /\ listResult = "none"
       /\ ~created
       /\ fileExists = fileAtStart.exists
       /\ file = fileAtStart.content
  /\ (listResult # "none" \/ created \/ pc \in {"session", "list"}) => AllSet

\* C9 witness: the region alone was empty and the run ended
C9_Witness ==
  /\ pc = "exited"
  /\ cfg["region"] = <<>>
  /\ cfg["criterion"] # <<>>
  /\ cfg["template"] # <<>>
  /\ cfg["outfile"] # <<>>

ContributionAt(i) == Contribution(variant, processed[i], RawOf(processed[i]))
Writers(k) == {i \in Processed : k \in DOMAIN ContributionAt(i)}
Last(S) == CHOOSE i \in S : \A j \in S : j <= i

\* C10: after resolution the keys of the context are the keys the processed
\* secrets contributed, and each key has the value of the last processed
\* secret that contributed it.
C10_LastWriteWins ==
  (pc = "resolve" /\ todo = {}) =>
    /\ \A i \in Processed : DOMAIN ContributionAt(i) \subseteq DOMAIN ctx
    /\ \A k \in DOMAIN ctx :
         /\ Writers(k) # {}
         /\ ctx[k] = ContributionAt(Last(Writers(k)))[k]

\* C10 witness: resolution is over and two processed secrets contributed
\* different values for one key
C10_Witness ==
  /\ pc = "resolve"
  /\ todo = {}
  /\ \E k \in DOMAIN ctx :
       \E i, j \in Writers(k) : ContributionAt(i)[k] # ContributionAt(j)[k]

=============================================================================
